---- MODULE Spec2Model ----
(***************************************************************************)
(* Model of the detection service: detector.py (VisionDetector: parsing    *)
(* and reconciliation of the vision model's JSON answer, assembly of the   *)
(* DetectionResponse) and main.py (lazy detector singleton, startup,       *)
(* /health, /reload-model, /detect and its status mapping).                *)
(*                                                                         *)
(* Conventions.                                                            *)
(*  - Python's None is the empty sequence <<>>, a present value x is <<x>>.*)
(*  - Confidence scores and thresholds are in hundredths (0.95 is 95).     *)
(*  - A JSON scalar is a record [t, n, s]: t is its JSON type ("absent"    *)
(*    stands for a key that is not in the object), n its number (a float   *)
(*    is held in tenths, 2.5 is 25), s its string.                         *)
(*  - An exception is the name of its Python class.                        *)
(***************************************************************************)
EXTENDS Integers, Sequences, FiniteSets, TLC

VARIABLES
    call,            \* arguments of the last VisionDetector.detect call, or <<>>
    ret,             \* what that call returned or raised, or <<>>
    pc,              \* "loaded" (main.py imported, startup not run), "serving"
                     \* (startup completed), "crashed" (startup raised);
                     \* "direct" when detect is called without the service
    settings,        \* the names the Settings object defines
    detector,        \* main.detector: <<>> or <<[id, ready]>>
    detector_error,  \* main.detector_error: <<>> or <<message>>
    attempts,        \* constructions get_detector has attempted so far
    reloads,         \* /reload-model requests handled so far
    started,         \* what startup_event met: <<>> or <<[downloaded, deps_ok, env]>>
    det,             \* what the last get_detector call returned (a handler's det)
    req,             \* the HTTP request whose handler ran last, or <<>>
    resp,            \* the HTTP response to it, or <<>> while its handler is
                     \* suspended
    suspended        \* the detect_objects handlers waiting in "await
                     \* image.read()": their request and their det

vars == <<call, ret, pc, settings, detector, detector_error, attempts, reloads,
          started, det, req, resp, suspended>>

None == <<>>
Some(x) == <<x>>

(***************************************************************************)
(* Bounds of the model.                                                    *)
(***************************************************************************)
MaxItems == 3       \* longest "items" list of a model answer
MaxReloads == 1     \* /reload-model requests in one run
MaxSuspended == 1   \* detect_objects handlers suspended at one time

(***************************************************************************)
(* config.py                                                               *)
(***************************************************************************)
confidence_threshold == 25
max_upload_mb == 50
max_image_size == 2048

\* the fields of class Settings
SettingsFields ==
    {"anthropic_api_key", "anthropic_model", "anthropic_max_tokens",
     "anthropic_thinking_budget", "confidence_threshold", "max_image_size",
     "max_upload_mb", "log_level", "allowed_origins"}

\* the Settings objects main.py may run with: that of config.py, and one
\* that also defines the model_path main.py reads
SettingsInUse == {SettingsFields, SettingsFields \cup {"model_path"}}

(***************************************************************************)
(* JSON values of the remote model's answer.                               *)
(***************************************************************************)
Absent == [t |-> "absent", n |-> 0, s |-> ""]
JNull == [t |-> "null", n |-> 0, s |-> ""]
JInt(i) == [t |-> "int", n |-> i, s |-> ""]
JFloat(tenths) == [t |-> "float", n |-> tenths, s |-> ""]
JStr(str) == [t |-> "str", n |-> 0, s |-> str]
JBool(b) == [t |-> "bool", n |-> IF b THEN 1 ELSE 0, s |-> ""]

GridOrder == <<"top_left", "top_center", "top_right",
               "middle_left", "middle_center", "middle_right",
               "bottom_left", "bottom_center", "bottom_right">>
GridKeys == {GridOrder[i] : i \in 1..Len(GridOrder)}

\* the "sections" value of an item: a JSON object (t = "obj", m its members
\* in the order of the text, which is the order the dict keeps), a non-empty
\* JSON array, null, or absent
Member(k, v) == [k |-> k, v |-> v]
NoMap == <<>>
SecAbsent == [t |-> "absent", m |-> NoMap]
SecNull == [t |-> "null", m |-> NoMap]
SecList == [t |-> "list", m |-> NoMap]
SecObj(m) == [t |-> "obj", m |-> m]

\* an entry of "items": a JSON object with these members, or (t # "obj") a
\* JSON value of another type
ItemObj(cn, conf, sec, tot, notes) ==
    [t |-> "obj", class_name |-> cn, confidence |-> conf, sections |-> sec,
     total |-> tot, notes |-> notes]
ItemStr == [t |-> "str", class_name |-> Absent, confidence |-> Absent,
            sections |-> SecAbsent, total |-> Absent, notes |-> Absent]

(***************************************************************************)
(* Python built-ins, as far as the code uses them.                         *)
(***************************************************************************)
Ok(v) == [exc |-> None, val |-> Some(v)]
Raise(e) == [exc |-> Some(e), val |-> None]
Raised(r) == r.exc # None
Val(r) == r.val[1]

\* the whitespace int() drops from both ends of a string: the six ASCII
\* characters (space, \t, \n, \r, \f and the vertical tab 0x0b) and, the
\* strings of the model being Latin-1, NEL (0x85) and the no-break space
\* (0xa0); the last three stand in the set as the characters themselves
Whitespace == {" ", "\t", "\n", "\r", "\f", "", "", " "}

RECURSIVE LStrip(_)
LStrip(s) == IF s # "" /\ Head(s) \in Whitespace THEN LStrip(Tail(s)) ELSE s

RECURSIVE RStrip(_)
RStrip(s) ==
    IF s # "" /\ SubSeq(s, Len(s), Len(s)) \in Whitespace
    THEN RStrip(SubSeq(s, 1, Len(s) - 1))
    ELSE s

DigitChars == "0123456789"
UpperChars == "ABCDEFGHIJKLMNOPQRSTUVWXYZÀÁÂÃÄÅÆÇÈÉÊËÌÍÎÏÐÑÒÓÔÕÖØÙÚÛÜÝÞ"
LowerChars == "abcdefghijklmnopqrstuvwxyzàáâãäåæçèéêëìíîïðñòóôõöøùúûüýþ"

\* the position of the character c in chars, 0 when it is not there
IndexIn(chars, c) ==
    IF \E i \in 1..Len(chars) : SubSeq(chars, i, i) = c
    THEN CHOOSE i \in 1..Len(chars) : SubSeq(chars, i, i) = c
    ELSE 0

IsDigit(c) == IndexIn(DigitChars, c) > 0

RECURSIVE ParseDigits(_, _, _)
\* the digits of s from position i on, single underscores between digits
\* allowed: the number, or ValueError
ParseDigits(s, i, acc) ==
    IF i > Len(s) THEN Ok(acc)
    ELSE LET c == SubSeq(s, i, i)
         IN  IF IsDigit(c)
             THEN ParseDigits(s, i + 1, 10 * acc + IndexIn(DigitChars, c) - 1)
             ELSE IF /\ c = "_" /\ 1 < i /\ i < Len(s)
                     /\ IsDigit(SubSeq(s, i - 1, i - 1))
                     /\ IsDigit(SubSeq(s, i + 1, i + 1))
             THEN ParseDigits(s, i + 1, acc)
             ELSE Raise("ValueError")

\* int(str): whitespace stripped, an optional sign, decimal digits (ASCII;
\* values within 32 bits)
IntOfStr(str) ==
    LET s      == RStrip(LStrip(str))
        signed == s # "" /\ Head(s) \in {"+", "-"}
        body   == IF signed THEN Tail(s) ELSE s
        digits == ParseDigits(body, 1, 0)
    IN  IF body = "" \/ Raised(digits) THEN Raise("ValueError")
        ELSE Ok(IF signed /\ Head(s) = "-" THEN -Val(digits) ELSE Val(digits))

\* int(v): an int as is, a bool as 0 or 1, a float truncated toward zero, a
\* string parsed, TypeError for None
PyInt(v) ==
    CASE v.t \in {"int", "bool"} -> Ok(v.n)
      [] v.t = "float" -> Ok(IF v.n >= 0 THEN v.n \div 10 ELSE -((-v.n) \div 10))
      [] v.t = "str" -> IntOfStr(v.s)
      [] OTHER -> Raise("TypeError")

\* str(v) of a JSON scalar; a float is held in tenths
PyStr(v) ==
    CASE v.t = "str" -> v.s
      [] v.t = "null" -> "None"
      [] v.t = "bool" -> IF v.n = 1 THEN "True" ELSE "False"
      [] v.t = "float" ->
            LET a == IF v.n < 0 THEN -v.n ELSE v.n
            IN  (IF v.n < 0 THEN "-" ELSE "") \o ToString(a \div 10) \o "."
                \o ToString(a % 10)
      [] OTHER -> ToString(v.n)

\* c.lower() of one character (Latin-1)
LowerChar(c) ==
    IF IndexIn(UpperChars, c) > 0
    THEN SubSeq(LowerChars, IndexIn(UpperChars, c), IndexIn(UpperChars, c))
    ELSE c

RECURSIVE Lower(_)
\* s.lower()
Lower(s) == IF s = "" THEN "" ELSE LowerChar(Head(s)) \o Lower(Tail(s))

\* d.get(key, default) for a member that may be absent
Get(v, default) == IF v.t = "absent" THEN default ELSE v

Max(a, b) == IF a >= b THEN a ELSE b

(***************************************************************************)
(* detector.py                                                             *)
(***************************************************************************)
CONFIDENCE_MAP == [high |-> 95, medium |-> 75, low |-> 40]

\* sum(int(v) for v in sections.values()), from member i on in the dict's
\* order: the first value int() refuses raises, otherwise the sum
RECURSIVE SumInts(_, _)
SumInts(m, i) ==
    IF i > Len(m) THEN Ok(0)
    ELSE LET head == PyInt(m[i].v)
         IN  IF Raised(head) THEN head
             ELSE LET rest == SumInts(m, i + 1)
                  IN  IF Raised(rest) THEN rest ELSE Ok(Val(head) + Val(rest))

\* bool(sections): None, {} are false; a non-empty object or array is true
Truthy(sec) ==
    \/ sec.t = "list"
    \/ sec.t = "obj" /\ Len(sec.m) > 0

\* {k: int(v) for k, v in sections.items()} if sections else {}
IntSections(sec) ==
    IF Truthy(sec)
    THEN [k \in {sec.m[i].k : i \in 1..Len(sec.m)} |->
            Val(PyInt(sec.m[CHOOSE i \in 1..Len(sec.m) : sec.m[i].k = k].v))]
    ELSE [k \in {} |-> 0]

\* mutant: the stated total wins where the two disagree
ResolveCountTotalWins(truthy, section_sum, stated_total) ==
    IF truthy /\ section_sum > 0 /\ section_sum = stated_total THEN section_sum
    ELSE Max(1, stated_total)

\* mutant: the stated total is taken as it is, without the floor of 1
ResolveCountUnclamped(truthy, section_sum, stated_total) ==
    IF truthy /\ section_sum > 0 /\ section_sum # stated_total THEN section_sum
    ELSE IF section_sum > 0 THEN section_sum
    ELSE stated_total

\* the count the loop body settles on (lines 153-162)
ResolveCount(truthy, section_sum, stated_total) ==
    IF truthy /\ section_sum > 0 /\ section_sum # stated_total THEN section_sum
    ELSE IF section_sum > 0 THEN section_sum
    ELSE Max(1, stated_total)

\* mutant: an item exactly at the threshold is dropped too
BelowOrAtThreshold(conf_numeric, conf_thresh) == conf_numeric <= conf_thresh

\* the filter of line 145: TRUE when the item is skipped
BelowThreshold(conf_numeric, conf_thresh) == conf_numeric < conf_thresh

\* the level looked up in CONFIDENCE_MAP (lines 140-142)
ConfidenceLevel(item) ==
    LET lvl == Lower(PyStr(Get(item.confidence, JStr("medium"))))
    IN  IF lvl \in DOMAIN CONFIDENCE_MAP THEN lvl ELSE "medium"

\* one pass of the loop body of _parse_response (lines 139-172):
\* [exc, val] with val = <<>> for a skipped item
ParseItem(item, conf_thresh) ==
    IF item.t # "obj" THEN Raise("AttributeError")   \* item.get on a non-dict
    ELSE
    LET confidence_level == ConfidenceLevel(item)
        conf_numeric == CONFIDENCE_MAP[confidence_level]
        sections == Get(item.sections, SecObj(NoMap))
    IN  IF BelowThreshold(conf_numeric, conf_thresh) THEN Ok(None)
        ELSE IF sections.t = "list" THEN Raise("AttributeError")  \* list.values
        ELSE
        LET sum == IF Truthy(sections) THEN SumInts(sections.m, 1)
                   ELSE Ok(0)
            tot == PyInt(Get(item.total, JInt(0)))
        IN  IF Raised(sum) THEN sum
            ELSE IF Raised(tot) THEN tot
            ELSE Ok(Some(
                [class_name |-> PyStr(Get(item.class_name, JStr("unknown"))),
                 count |-> ResolveCount(Truthy(sections), Val(sum), Val(tot)),
                 confidence |-> conf_numeric,
                 confidence_level |-> confidence_level,
                 sections |-> IntSections(sections),
                 notes |-> IF item.notes.t \in {"absent", "null"} THEN None
                           ELSE Some(item.notes),   \* item.get("notes")
                 needs_review |-> (confidence_level = "low")]))

RECURSIVE ParseLoop(_, _, _, _)
ParseLoop(items, i, conf_thresh, results) ==
    IF i > Len(items) THEN Ok(results)
    ELSE LET r == ParseItem(items[i], conf_thresh)
         IN  IF Raised(r) THEN r
             ELSE ParseLoop(items, i + 1, conf_thresh,
                            IF Val(r) = None THEN results
                            ELSE Append(results, Val(r)[1]))

(***************************************************************************)
(* The text of the remote model's answer: a sequence of lines, each either *)
(* a code fence or a one-line JSON document (valid = FALSE: text json.loads*)
(* refuses, such as a truncated document).                                 *)
(***************************************************************************)
FenceLine == [fence |-> TRUE, valid |-> FALSE, t |-> "null",
              items |-> [t |-> "absent", l |-> <<>>]]
Truncated == [fence |-> FALSE, valid |-> FALSE, t |-> "null",
              items |-> [t |-> "absent", l |-> <<>>]]
\* a valid document of JSON type t; for an object, its "items" member
Doc(t, items) == [fence |-> FALSE, valid |-> TRUE, t |-> t, items |-> items]
ItemsAbsent == [t |-> "absent", l |-> <<>>]
ItemsNull == [t |-> "null", l |-> <<>>]
\* a JSON string under "items": the for loop iterates its characters, each
\* of them a str
ItemsStr(str) == [t |-> "str", l |-> [i \in 1..Len(str) |-> ItemStr]]
ItemsList(l) == [t |-> "list", l |-> l]

\* lines 130-133: strip a leading fence line together with the last line
StripFence(text) ==
    IF Len(text) > 0 /\ text[1].fence
    THEN SubSeq(text, 2, Len(text) - 1)
    ELSE text

\* json.loads of the joined lines: one valid document, or JSONDecodeError
JsonLoads(lines) ==
    IF Len(lines) = 1 /\ lines[1].valid THEN Ok(lines[1])
    ELSE Raise("JSONDecodeError")

\* VisionDetector._parse_response(text, conf_thresh)
_parse_response(text, conf_thresh) ==
    LET loaded == JsonLoads(StripFence(text))
    IN  IF Raised(loaded) THEN loaded
        ELSE LET data == Val(loaded)
             IN  IF data.t # "obj" THEN Raise("AttributeError")   \* data.get
                 ELSE CASE data.items.t = "absent" -> Ok(<<>>)
                        [] data.items.t \in {"list", "str"} ->
                              ParseLoop(data.items.l, 1, conf_thresh, <<>>)
                        [] OTHER -> Raise("TypeError")  \* not iterable

\* models.py
DetectionResponse(success, detections, summary, total, width, height, error, preview) ==
    [success |-> success, detections |-> detections, summary |-> summary,
     total_objects |-> total, image_width |-> width, image_height |-> height,
     error |-> error, image_preview |-> preview]

\* mutant: the failure is returned without its message
FailedWithoutError(error) == DetectionResponse(FALSE, <<>>, <<>>, 0, 0, 0, None, None)

\* DetectionResponse(success=False, error=...): every other field defaulted
Failed(error) == DetectionResponse(FALSE, <<>>, <<>>, 0, 0, 0, Some(error), None)

\* a field declared Optional[str]: pydantic accepts None or a str and
\* refuses every other value
OptionalStr(v) == v = None \/ v[1].t = "str"

\* DetectedObject(...) as detect builds it (lines 253-259): the object, or
\* the ValidationError of a description that is no str
DetectedObject(item) ==
    IF ~OptionalStr(item.notes) THEN Raise("ValidationError")
    ELSE Ok([class_name |-> item.class_name, class_id |-> 0,
             confidence |-> item.confidence, bbox |-> None,
             description |-> item.notes])

\* SectionCounts(**sections): the nine cells, 0 where the key is missing
SectionCounts(sections) ==
    [k \in GridKeys |-> IF k \in DOMAIN sections THEN sections[k] ELSE 0]

\* DetectionSummary(...) as detect builds it (lines 260-268): the entry, or
\* the ValidationError of notes that are no str
DetectionSummary(item) ==
    IF ~OptionalStr(item.notes) THEN Raise("ValidationError")
    ELSE Ok([class_name |-> item.class_name, count |-> item.count,
             avg_confidence |-> item.confidence,
             confidence_level |-> item.confidence_level,
             category |-> "Uncategorized",
             sections |-> IF DOMAIN item.sections # {}
                          THEN Some(SectionCounts(item.sections)) ELSE None,
             notes |-> item.notes, needs_review |-> item.needs_review])

\* ---- Python floats (IEEE 754 binary64), positive values only: a float is
\* [m, e] with m its 53 significand bits, most significant first, and the
\* value ToInt(m) * 2^e. Intermediate results are exact: digit sequences, and
\* sequences of 13-bit limbs where two numbers are multiplied or divided.
Precision == 53

RECURSIVE BitsOf(_)
\* the binary digits of a natural number, most significant first
BitsOf(n) == IF n = 0 THEN <<>> ELSE Append(BitsOf(n \div 2), n % 2)

RECURSIVE ToIntAt(_, _)
\* the number the first n digits stand for
ToIntAt(bits, n) == IF n = 0 THEN 0 ELSE 2 * ToIntAt(bits, n - 1) + bits[n]

ToInt(bits) == ToIntAt(bits, Len(bits))

\* the digits of a sequence of 13-bit limbs
Flatten(limbs) ==
    [i \in 1..(13 * Len(limbs)) |->
        (limbs[((i - 1) \div 13) + 1] \div 2^(12 - ((i - 1) % 13))) % 2]

\* the limbs of a digit sequence, n of them
Limbs(bits, n) ==
    LET pad    == 13 * n - Len(bits)
        padded == [i \in 1..(13 * n) |-> IF i <= pad THEN 0 ELSE bits[i - pad]]
    IN  [k \in 1..n |-> ToInt(SubSeq(padded, 13 * (k - 1) + 1, 13 * k))]

\* without the leading zeros
Strip(bits) ==
    IF \A i \in 1..Len(bits) : bits[i] = 0 THEN <<>>
    ELSE LET first == CHOOSE i \in 1..Len(bits) :
                         bits[i] = 1 /\ \A j \in 1..(i - 1) : bits[j] = 0
         IN  SubSeq(bits, first, Len(bits))

\* bits + 1, one digit longer when every digit was 1
Increment(bits) ==
    IF \A i \in 1..Len(bits) : bits[i] = 1
    THEN <<1>> \o [i \in 1..Len(bits) |-> 0]
    ELSE LET last == CHOOSE i \in 1..Len(bits) :
                        bits[i] = 0 /\ \A j \in (i + 1)..Len(bits) : bits[j] = 1
         IN  [i \in 1..Len(bits) |->
                IF i < last THEN bits[i] ELSE IF i = last THEN 1 ELSE 0]

\* round to nearest, ties to even: bits are the leading digits of an exact
\* value bits * 2^e (+ something below the last digit when sticky)
RoundNearestEven(bits, sticky, e) ==
    IF Len(bits) <= Precision
    THEN [m |-> bits \o [i \in 1..(Precision - Len(bits)) |-> 0],
          e |-> e - (Precision - Len(bits))]
    ELSE LET kept  == SubSeq(bits, 1, Precision)
             guard == bits[Precision + 1]
             rest  == sticky \/ \E i \in (Precision + 2)..Len(bits) : bits[i] = 1
             drop  == Len(bits) - Precision
             up    == guard = 1 /\ (rest \/ kept[Precision] = 1)
             inc   == Increment(kept)
         IN  IF ~up THEN [m |-> kept, e |-> e + drop]
             ELSE IF Len(inc) = Precision THEN [m |-> inc, e |-> e + drop]
             ELSE [m |-> SubSeq(inc, 1, Precision), e |-> e + drop + 1]

RECURSIVE DivLimbs(_, _, _)
\* long division r / b below the binary point, n limbs of it
DivLimbs(r, b, n) ==
    IF n = 0 THEN [limbs |-> <<>>, rem |-> r]
    ELSE LET rest == DivLimbs((r * 2^13) % b, b, n - 1)
         IN  [limbs |-> <<(r * 2^13) \div b>> \o rest.limbs, rem |-> rest.rem]

\* a / b for ints 0 < a, 0 < b < 2^18: int.__truediv__ is correctly rounded
TrueDiv(a, b) ==
    LET d == DivLimbs(a % b, b, 6)
    IN  RoundNearestEven(Strip(BitsOf(a \div b) \o Flatten(d.limbs)),
                         d.rem # 0, -78)

RECURSIVE MulLimbs(_, _, _, _)
\* limbs[1..i] * w + carry: the carry out, then the limbs
MulLimbs(limbs, i, w, carry) ==
    IF i = 0 THEN <<carry>>
    ELSE Append(MulLimbs(limbs, i - 1, w, (limbs[i] * w + carry) \div 2^13),
                (limbs[i] * w + carry) % 2^13)

\* the digits of bits * w, for at most 65 digits and w < 2^17
MulBits(bits, w) ==
    LET product == MulLimbs(Limbs(bits, 5), 5, w, 0)
    IN  Strip(BitsOf(product[1]) \o Flatten(SubSeq(product, 2, 6)))

\* w * x for an int 0 < w < 2^17 and a float x: the exact product, rounded
\* once
IntTimesFloat(w, x) == RoundNearestEven(MulBits(x.m, w), FALSE, x.e)

\* int(x) of a float x >= 0: the digits above the binary point
IntOfFloat(x) ==
    IF x.e >= 0 THEN ToInt(x.m \o [i \in 1..x.e |-> 0])
    ELSE IF Precision + x.e <= 0 THEN 0
    ELSE ToInt(SubSeq(x.m, 1, Precision + x.e))

\* the JPEG written by image.save for an image of this size
JPEG(w, h) == [format |-> "JPEG", w |-> w, h |-> h]

\* lines 116-118: the size the image is resized to
NewSize(orig_w, orig_h, max_dim) ==
    LET scale == TrueDiv(max_dim, Max(orig_w, orig_h))
    IN  [w |-> IntOfFloat(IntTimesFloat(orig_w, scale)),
         h |-> IntOfFloat(IntTimesFloat(orig_h, scale))]

\* VisionDetector._prepare_image: the JPEG payload and the original size,
\* or the exception that leaves it: Image.open on bytes that are no image,
\* Image.resize on a size with a zero in it
_prepare_image(image) ==
    IF ~image.ok THEN Raise("UnidentifiedImageError")
    ELSE IF Max(image.w, image.h) > max_image_size
    THEN LET new == NewSize(image.w, image.h, max_image_size)
         IN  IF new.w < 1 \/ new.h < 1 THEN Raise("ValueError")
             ELSE Ok([b64 |-> JPEG(new.w, new.h), media_type |-> "image/jpeg",
                      orig_w |-> image.w, orig_h |-> image.h])
    ELSE Ok([b64 |-> JPEG(image.w, image.h), media_type |-> "image/jpeg",
             orig_w |-> image.w, orig_h |-> image.h])

\* mutant: total_objects counts the entries
CountEntries(items, i) == Len(items)

\* sum(item["count"] for item in parsed_items), from index i on
RECURSIVE SumCounts(_, _)
SumCounts(items, i) ==
    IF i > Len(items) THEN 0 ELSE items[i].count + SumCounts(items, i + 1)

\* the summary list built by the loop of lines 250-268, once every item
\* has passed validation
BuildSummary(parsed_items) ==
    [i \in 1..Len(parsed_items) |-> Val(DetectionSummary(parsed_items[i]))]

\* the loop of lines 250-268 runs to its end: no constructor raises
Validates(parsed_items) ==
    \A i \in 1..Len(parsed_items) :
        /\ ~Raised(DetectedObject(parsed_items[i]))
        /\ ~Raised(DetectionSummary(parsed_items[i]))

\* the exceptions the except clause of line 243 catches
ParseCaught == {"JSONDecodeError", "KeyError", "TypeError", "ValueError"}

\* what the remote call leaves detect with (lines 196-239): the text of the
\* first text block, or the message of the failure
RemoteCall(api, text) ==
    CASE api = "Text" -> Ok(text)
      [] api = "APIError" -> Raise("Vision API error")
      [] OTHER -> Raise("Vision API call failed")  \* any other exception,
                                                   \* or no text block

\* lines 250-282: the response built from the parsed items and the prepared
\* image; a constructor that refuses an item raises outside the try
BuildResponse(parsed_items, prepared) ==
    IF ~Validates(parsed_items)
    THEN Raise("ValidationError")
    ELSE Ok(DetectionResponse(
                TRUE,
                [i \in 1..Len(parsed_items) |->
                    Val(DetectedObject(parsed_items[i]))],
                BuildSummary(parsed_items),
                SumCounts(parsed_items, 1),
                prepared.orig_w, prepared.orig_h,
                None, Some(prepared.b64)))

\* lines 241-248 and what follows them: parsed is what _parse_response
\* returned or raised
HandleParsed(parsed, prepared) ==
    IF Raised(parsed)
    THEN IF parsed.exc[1] \in ParseCaught
         THEN Ok(Failed("Failed to parse detection results"))
         ELSE parsed                          \* the exception leaves detect
    ELSE BuildResponse(Val(parsed), prepared)

\* lines 190-248: prepared is what _prepare_image returned or raised,
\* remote what the remote call came to
HandlePrepared(prepared, remote, conf_thresh) ==
    IF Raised(prepared) THEN Ok(Failed("Invalid image"))
    ELSE IF Raised(remote) THEN Ok(Failed(remote.exc[1]))
    ELSE HandleParsed(_parse_response(Val(remote), conf_thresh), Val(prepared))

\* VisionDetector.detect(image_bytes, confidence_threshold): c is the call
\* [ready, image, confidence_threshold, api, text]
detect(c) ==
    IF ~c.ready
    THEN Ok(Failed("Vision API client not initialized"))
    ELSE HandlePrepared(_prepare_image(c.image), RemoteCall(c.api, c.text),
                        IF c.confidence_threshold = None
                           \/ c.confidence_threshold = Some(0)
                        THEN confidence_threshold
                        ELSE c.confidence_threshold[1])

(***************************************************************************)
(* Inputs: the answers the remote model is given to return.                *)
(***************************************************************************)
\* a nine-cell grid with a in top_left, b in top_center, 0 elsewhere
Grid(a, b) ==
    SecObj([i \in 1..Len(GridOrder) |->
              Member(GridOrder[i],
                     JInt(IF GridOrder[i] = "top_left" THEN a
                          ELSE IF GridOrder[i] = "top_center" THEN b ELSE 0))])

SectionInputs ==
    {SecAbsent, SecNull, SecObj(NoMap), Grid(0, 0), Grid(1, 2), Grid(-2, 1),
     SecObj(<<Member("top_left", JFloat(25)), Member("top_center", JStr("3"))>>),
     SecObj(<<Member("top_left", JStr("two"))>>),
     SecObj(<<Member("top_left", JNull)>>),
     SecObj(<<Member("top_center", JStr("two")), Member("top_left", JNull)>>),
     SecObj(<<Member("top_left", JNull), Member("top_center", JStr("two"))>>),
     SecList}

TotalInputs == {Absent, JInt(0), JInt(-2), JInt(3), JInt(4), JInt(5),
                JStr("abc"), JStr("7"), JStr(" -12 "), JStr("5"), JFloat(-15),
                JNull}

LevelInputs == {Absent, JStr("high"), JStr("medium"), JStr("low"),
                JStr("HIGH"), JStr("Low"), JStr("unsure"), JNull, JInt(5),
                JFloat(-15), JBool(TRUE)}

\* items that vary the count fields, and items that vary the level
SingleItems ==
    {ItemObj(JStr("cola"), JStr("high"), sec, tot, Absent) :
        sec \in SectionInputs, tot \in TotalInputs}
    \cup {ItemObj(JStr("cola"), lvl, SecAbsent, JInt(2), Absent) :
            lvl \in LevelInputs}
    \cup {ItemObj(Absent, JStr("low"), Grid(1, 2), JInt(3), JStr("dented")),
          ItemObj(JStr("cola"), JStr("high"), SecAbsent, JInt(1), JNull),
          ItemObj(JStr("cola"), JStr("high"), SecAbsent, JInt(1), JInt(5)),
          ItemObj(JFloat(-15), JStr("low"), SecAbsent, JInt(1), JInt(5)),
          ItemStr}

\* the items of longer lists: two classes, the three levels, several counts,
\* an entry that is no object, an unreadable total behind a low level
ListItems ==
    {ItemObj(JStr("cola"), JStr("high"), SecAbsent, JInt(1), Absent),
     ItemObj(JStr("cola"), JStr("medium"), Grid(1, 2), JInt(5), Absent),
     ItemObj(JStr("chips"), JStr("low"), SecAbsent, JInt(2), Absent),
     ItemObj(JStr("chips"), JStr("high"), Grid(0, 0), JInt(4), Absent),
     ItemObj(JStr("chips"), JStr("low"), SecAbsent, JStr("abc"), Absent),
     ItemStr}

RECURSIVE SeqsUpTo(_, _)
SeqsUpTo(S, n) ==
    IF n = 0 THEN {<<>>}
    ELSE LET shorter == SeqsUpTo(S, n - 1)
         IN  shorter \cup {Append(q, x) : q \in shorter, x \in S}

Documents ==
    {Doc("obj", ItemsList(<<it>>)) : it \in SingleItems}
    \cup {Doc("obj", ItemsList(l)) : l \in SeqsUpTo(ListItems, MaxItems)}
    \cup {Doc("obj", ItemsAbsent), Doc("obj", ItemsNull), Doc("obj", ItemsStr("ab")), Doc("obj", ItemsStr("")),
          Doc("list", ItemsAbsent), Doc("null", ItemsAbsent), Truncated}

\* a document bare, inside a fence, and inside a fence that is never closed
Texts ==
    {<<d>> : d \in Documents}
    \cup {<<FenceLine, d, FenceLine>> :
            d \in {Doc("obj", ItemsList(<<it>>)) : it \in ListItems}
                  \cup {Truncated, Doc("list", ItemsAbsent)}}
    \cup {<<FenceLine, Doc("obj", ItemsList(<<>>))>>, <<>>}

Thresholds == {None, Some(75), Some(80), Some(100)}

\* bytes that are no image, and images by their size: below, at and above
\* max_image_size, landscape, portrait and one pixel high
Image(w, h) == [ok |-> TRUE, w |-> w, h |-> h]
Images ==
    {[ok |-> FALSE, w |-> 0, h |-> 0], Image(640, 480), Image(2048, 1536),
     Image(2049, 2049), Image(4096, 3072), Image(3000, 2000),
     Image(2215, 1000), Image(1000, 2215), Image(4097, 1)}

GoodImage == [ok |-> TRUE, w |-> 640, h |-> 480]
EmptyAnswer == <<Doc("obj", ItemsList(<<>>))>>

Call(ready, image, thr, api, text) ==
    [ready |-> ready, image |-> image, confidence_threshold |-> thr,
     api |-> api, text |-> text]

\* the calls of detect: every text at every threshold on a good image, and
\* each earlier exit
Calls ==
    {Call(TRUE, GoodImage, thr, "Text", text) : thr \in Thresholds, text \in Texts}
    \cup {Call(TRUE, GoodImage, None, api, EmptyAnswer) :
            api \in {"APIError", "Exception", "NoTextBlock"}}
    \cup {Call(ready, image, Some(0), "Text", EmptyAnswer) :
            ready \in BOOLEAN, image \in Images}

(***************************************************************************)
(* SpecDetect: one direct call of VisionDetector.detect.                   *)
(***************************************************************************)
InitDetect ==
    /\ pc = "direct"
    /\ settings = SettingsFields
    /\ call \in {Some(c) : c \in Calls}
    /\ ret = None
    /\ detector = None /\ detector_error = None
    /\ attempts = 0 /\ reloads = 0
    /\ started = None /\ det = None
    /\ req = None /\ resp = None
    /\ suspended = {}

DetectCall ==
    /\ pc = "direct" /\ ret = None
    /\ ret' = Some(detect(call[1]))
    /\ UNCHANGED <<call, pc, settings, detector, detector_error, attempts,
                   reloads, started, det, req, resp, suspended>>

NextDetect == DetectCall

SpecDetect == InitDetect /\ [][NextDetect]_vars

(***************************************************************************)
(* main.py                                                                 *)
(***************************************************************************)
\* VisionDetector.__init__ / _init_client: ready only with an API key and a
\* client constructor that does not raise (its exception is caught there)
_init_client(env) == env.api_key /\ env.client_ok

\* what "from detector import YOLODetector; YOLODetector(settings)" comes to
\* in get_detector's try block: the instance's readiness, or the exception of
\* a failing import or constructor. detector.py defines VisionDetector only,
\* so with it the import raises (constructs = FALSE); constructs = TRUE is a
\* detector module that exports the imported name with VisionDetector's
\* constructor.
Construct(env) ==
    IF ~env.constructs THEN Raise("Failed to initialize detector")
    ELSE Ok(_init_client(env))

\* the environments a construction can meet
Envs ==
    {[constructs |-> FALSE, api_key |-> TRUE, client_ok |-> TRUE],
     [constructs |-> TRUE, api_key |-> FALSE, client_ok |-> TRUE],
     [constructs |-> TRUE, api_key |-> TRUE, client_ok |-> FALSE],
     [constructs |-> TRUE, api_key |-> TRUE, client_ok |-> TRUE]}

\* the module globals after a call, the value it returned (det) and the
\* exception it let out (exc), if any
Globals(d, e, a, returned) ==
    [detector |-> d, detector_error |-> e, attempts |-> a, det |-> returned,
     exc |-> None]

\* mutant: the detector is constructed on every call
get_detector_reloading(d, e, a, env) ==
    IF e # None THEN Globals(d, e, a, None)
    ELSE LET made == Construct(env)
         IN  IF Raised(made) THEN Globals(None, made.exc, a + 1, None)
             ELSE LET inst == Some([id |-> a + 1, ready |-> Val(made)])
                  IN  Globals(inst, e, a + 1, inst)

\* get_detector() on globals (d, e) with a constructions attempted before:
\* the globals after it and the value returned
get_detector(d, e, a, env) ==
    IF d # None THEN Globals(d, e, a, d)
    ELSE IF e # None THEN Globals(d, e, a, None)
    ELSE LET made == Construct(env)
         IN  IF Raised(made) THEN Globals(None, made.exc, a + 1, None)
             ELSE LET inst == Some([id |-> a + 1, ready |-> Val(made)])
                  IN  Globals(inst, e, a + 1, inst)

\* det.is_loaded for a det that is not None
is_loaded(d) == d[1].ready

\* what download_model_if_missing finds at settings.model_path: whether a
\* file is there, whether it has the 5 MB of a whole model, whether unlink
\* can delete it, and how the download goes ("small": a file below 5 MB)
FileSystems ==
    {fs \in [exists : BOOLEAN, big : BOOLEAN, unlinkable : BOOLEAN,
             fetch : {"ok", "small", "fails"}] :
        ~fs.exists => ~fs.big /\ fs.unlinkable}

\* download_model_if_missing(): True, False, or the exception of the unlink
\* of line 76, which no try block encloses; every failure of the download
\* itself (lines 79-90) is caught and gives False
download_model_if_missing(fs) ==
    IF fs.exists /\ fs.big THEN Ok(TRUE)
    ELSE IF fs.exists /\ ~fs.unlinkable THEN Raise("OSError")
    ELSE Ok(fs.fetch = "ok")

\* startup_event's effect on the globals once the download has returned
StartupGlobals(downloaded, deps_ok, env) ==
    IF ~downloaded
    THEN Globals(detector, Some("Failed to download YOLO model"), attempts, None)
    ELSE IF deps_ok
    THEN get_detector(detector, detector_error, attempts, env)
    ELSE Globals(detector, Some("Missing dependencies"), attempts, None)

\* settings.<name>: AttributeError for a name Settings does not define
HasAttr(obj, name) == name \in obj

\* the startup handler, run before the first request is served; an exception
\* that leaves it ends the process. Line 97 reads settings.model_path, line
\* 102 calls download_model_if_missing outside any try.
startup_event ==
    /\ pc = "loaded" /\ req = None
    /\ \E fs \in FileSystems, deps_ok \in BOOLEAN, env \in Envs :
         LET download == download_model_if_missing(fs)
             downloaded == ~Raised(download) /\ Val(download)
             g == IF ~HasAttr(settings, "model_path")
                  THEN [Globals(detector, detector_error, attempts, None)
                           EXCEPT !.exc = Some("AttributeError")]
                  ELSE IF Raised(download)
                  THEN [Globals(detector, detector_error, attempts, None)
                           EXCEPT !.exc = download.exc]
                  ELSE StartupGlobals(downloaded, deps_ok, env)
         IN  /\ detector' = g.detector
             /\ detector_error' = g.detector_error
             /\ attempts' = g.attempts
             /\ det' = g.det
             /\ pc' = IF g.exc = None THEN "serving" ELSE "crashed"
             /\ started' = Some([downloaded |-> downloaded, deps_ok |-> deps_ok,
                                 env |-> env])
    /\ UNCHANGED <<call, ret, settings, reloads, req, resp, suspended>>

\* requests are served once startup has completed, or by an application
\* whose startup handler is not run
Serving == pc \in {"loaded", "serving"}

\* raise HTTPException(status_code=...); 500 is the framework's answer to any
\* other exception that leaves a handler
HTTPException(status_code) == [status |-> status_code, body |-> None]

\* GET /health
HealthResponse(d, e) ==
    [status |-> IF e = None THEN "healthy" ELSE "error",
     model_loaded |-> (d # None /\ is_loaded(d))]

\* line 137 reads settings.model_path
health_check ==
    /\ Serving
    /\ req' = Some([op |-> "health"])
    /\ resp' = IF HasAttr(settings, "model_path")
               THEN Some([status |-> 200,
                          body |-> Some(HealthResponse(detector, detector_error))])
               ELSE Some(HTTPException(500))
    /\ UNCHANGED <<call, ret, pc, settings, detector, detector_error, attempts,
                    reloads, started, det, suspended>>

\* POST /reload-model's effect on the globals
ReloadGlobals(downloaded, env) ==
    IF ~downloaded
    THEN Globals(None, Some("Failed to download model"), attempts, None)
    ELSE get_detector(None, None, attempts, env)

\* line 175 reads settings.model_path and line 177 deletes the model file,
\* both before the globals are reset and outside any try; the download then
\* finds no file
reload_model ==
    /\ Serving
    /\ reloads < MaxReloads
    /\ \E fs \in FileSystems, env \in Envs :
         LET download == download_model_if_missing([fs EXCEPT !.exists = FALSE])
             g == IF ~HasAttr(settings, "model_path")
                  THEN [Globals(detector, detector_error, attempts, det)
                           EXCEPT !.exc = Some("AttributeError")]
                  ELSE IF fs.exists /\ ~fs.unlinkable
                  THEN [Globals(detector, detector_error, attempts, det)
                           EXCEPT !.exc = Some("OSError")]
                  ELSE ReloadGlobals(Val(download), env)
             success == g.det # None /\ is_loaded(g.det)
         IN  /\ detector' = g.detector
             /\ detector_error' = g.detector_error
             /\ attempts' = g.attempts
             /\ det' = g.det
             /\ resp' = IF g.exc = None
                        THEN Some([status |-> 200,
                                   body |-> Some([success |-> success])])
                        ELSE Some(HTTPException(500))
    /\ reloads' = reloads + 1
    /\ req' = Some([op |-> "reload"])
    /\ UNCHANGED <<call, ret, pc, settings, started, suspended>>

\* POST /detect
max_bytes == max_upload_mb * 1024 * 1024

Request(content_type, length, confidence, image, api, text) ==
    [op |-> "detect", content_type |-> content_type, length |-> length,
     confidence |-> confidence, image |-> image, api |-> api, text |-> text]

\* image.content_type and it starts with "image/"
IsImageType(content_type) ==
    /\ content_type # None
    /\ Len(content_type[1]) >= 6
    /\ SubSeq(content_type[1], 1, 6) = "image/"

\* mutant: the limit is off by one
TooSmallOffByOne(length) == length < 99

\* line 231: the body is taken to be empty
TooSmall(length) == length < 100

\* mutant: a failed result is returned as it is
ResultResponseUnchecked(result) ==
    IF Raised(result) THEN HTTPException(500)
    ELSE [status |-> 200, body |-> Some(Val(result))]

\* lines 234-243: the answer to what det.detect returned or raised
ResultResponse(result) ==
    IF Raised(result) THEN HTTPException(500)
    ELSE IF ~Val(result).success THEN HTTPException(422)
    ELSE [status |-> 200, body |-> Some(Val(result))]

\* lines 234-243 for the call c of det.detect: the response, the call and
\* what it returned or raised
CallResult(c, result) ==
    [resp |-> ResultResponse(result), call |-> Some(c), ret |-> Some(result)]

Handled(c) == CallResult(c, detect(c))

\* a handler that answered without calling det.detect
Answer(response) == [resp |-> response, call |-> None, ret |-> None]

\* lines 210-220, the checks before the upload is read: the error they
\* raise, or <<>> when the handler goes on to line 223
BeforeRead(d, r) ==
    IF d = None \/ ~is_loaded(d) THEN Some(HTTPException(503))
    ELSE IF ~IsImageType(r.content_type) THEN Some(HTTPException(400))
    ELSE None

\* lines 225-243, once the upload is read: the response, and the call of
\* d.detect it made, if it got that far
AfterRead(d, r) ==
    IF r.length > max_bytes THEN Answer(HTTPException(413))
    ELSE IF TooSmall(r.length) THEN Answer(HTTPException(400))
    ELSE Handled(Call(is_loaded(d), r.image, r.confidence, r.api, r.text))

\* detect_objects once get_detector has returned d, from line 210 to its end
DetectHandler(d, r) ==
    IF BeforeRead(d, r) # None THEN Answer(BeforeRead(d, r)[1])
    ELSE AfterRead(d, r)

\* line 223, content = await image.read(): an upload of up to 1 MB is held
\* in memory and read at once; a larger one is on disk, its read goes to a
\* thread and the handler gives the event loop to other requests meanwhile
OnDisk(length) == length > 1024 * 1024

\* the answers the service's requests draw from
ServiceTexts ==
    {EmptyAnswer, <<Truncated>>, <<Doc("list", ItemsAbsent)>>,
     <<Doc("obj", ItemsList(<<ItemStr>>))>>,
     <<Doc("obj", ItemsList(<<ItemObj(JStr("cola"), JStr("high"), SecAbsent,
                                      JInt(1), JInt(5))>>))>>,
     <<FenceLine,
       Doc("obj", ItemsList(<<ItemObj(JStr("cola"), JStr("medium"), Grid(1, 2),
                                       JInt(5), Absent)>>)),
       FenceLine>>}

\* the uploads of the service's requests: bytes that are no image, an image
\* that needs no resizing and one that does
UploadImages == {[ok |-> FALSE, w |-> 0, h |-> 0], GoodImage, Image(3000, 2000)}

ContentTypes == {None, Some(""), Some("text/plain"), Some("image/webp")}
Lengths == {0, 99, 100, max_bytes, max_bytes + 1}

\* every content type with every length, and on a well-formed upload every
\* way the detection can go
Requests ==
    {Request(ct, len, None, GoodImage, "Text", EmptyAnswer) :
        ct \in ContentTypes, len \in Lengths}
    \cup {Request(Some("image/jpeg"), 100, thr, GoodImage, "Text", text) :
            thr \in {None, Some(80)}, text \in ServiceTexts}
    \cup {Request(Some("image/jpeg"), 100, None, image, api, EmptyAnswer) :
            image \in UploadImages, api \in {"Text", "APIError", "NoTextBlock"}}

\* the environments a get_detector call on globals (d, e) can meet: it
\* constructs, and so meets one, only when both are None
EnvsMet(d, e) ==
    IF d = None /\ e = None THEN Envs ELSE {CHOOSE env \in Envs : TRUE}

\* a handler instance held at line 223
Frame(r, d) == [r |-> r, det |-> d]

\* POST /detect from its first line: to its response, or, with an upload on
\* disk, to the await of line 223
detect_objects ==
    /\ Serving
    /\ \E r \in Requests, env \in EnvsMet(detector, detector_error) :
         LET g == get_detector(detector, detector_error, attempts, env)
         IN  /\ detector' = g.detector
             /\ detector_error' = g.detector_error
             /\ attempts' = g.attempts
             /\ det' = g.det
             /\ req' = Some(r)
             /\ IF BeforeRead(g.det, r) = None /\ OnDisk(r.length)
                THEN /\ Cardinality(suspended) < MaxSuspended
                     /\ suspended' = suspended \cup {Frame(r, g.det)}
                     /\ resp' = None
                     /\ UNCHANGED <<call, ret>>
                ELSE \E h \in {DetectHandler(g.det, r)} :
                        /\ resp' = Some(h.resp)
                        /\ call' = h.call
                        /\ ret' = h.ret
                        /\ UNCHANGED suspended
    /\ UNCHANGED <<pc, settings, reloads, started>>

\* the read of line 223 is done and a suspended handler runs to its
\* response with the det it took at line 209, whatever the globals are now
detect_objects_resume ==
    /\ \E f \in suspended :
         \E h \in {AfterRead(f.det, f.r)} :
            /\ suspended' = suspended \ {f}
            /\ det' = f.det
            /\ req' = Some(f.r)
            /\ resp' = Some(h.resp)
            /\ call' = h.call
            /\ ret' = h.ret
    /\ UNCHANGED <<pc, settings, detector, detector_error, attempts, reloads,
                   started>>

Init ==
    /\ pc = "loaded"
    /\ settings \in SettingsInUse
    /\ detector = None /\ detector_error = None
    /\ attempts = 0 /\ reloads = 0
    /\ call = None /\ ret = None
    /\ started = None /\ det = None
    /\ req = None /\ resp = None
    /\ suspended = {}

Next ==
    \/ startup_event
    \/ health_check
    \/ reload_model
    \/ detect_objects
    \/ detect_objects_resume

Spec == Init /\ [][Next]_vars

(***************************************************************************)
(* The properties.                                                         *)
(***************************************************************************)
\* detect was called and returned a DetectionResponse
Returned == ret # None /\ ~Raised(ret[1])
Response == Val(ret[1])

\* detect got as far as parsing the model's answer
ReachedParse ==
    /\ call # None
    /\ call[1].ready /\ ~Raised(_prepare_image(call[1].image))
    /\ call[1].api = "Text"

\* the threshold detect hands to _parse_response
RequestedThreshold ==
    IF call[1].confidence_threshold \in {None, Some(0)}
    THEN confidence_threshold
    ELSE call[1].confidence_threshold[1]

\* the "items" of a successfully parsed answer, bare or inside a fence
AnswerItems ==
    LET text == call[1].text
    IN  IF Len(text) = 1 THEN text[1].items.l ELSE text[2].items.l

\* the score the specification assigns to an item's stated level
LevelStated(item) ==
    item.confidence \in {Absent, JStr("high"), JStr("medium"), JStr("low")}
StatedScore(item) ==
    CASE item.confidence = JStr("high") -> 95
      [] item.confidence = JStr("low") -> 40
      [] OTHER -> 75

AtOrAboveThreshold(item) == StatedScore(item) >= RequestedThreshold

\* the items the specification lets through, in the answer's order
Surviving == SelectSeq(AnswerItems, AtOrAboveThreshold)

\* a successful response to an answer whose items all state a known level
Answered ==
    /\ ReachedParse /\ Returned /\ Response.success
    /\ \A i \in 1..Len(AnswerItems) : LevelStated(AnswerItems[i])

RECURSIVE SummaryTotal(_, _)
SummaryTotal(summary, i) ==
    IF i > Len(summary) THEN 0
    ELSE summary[i].count + SummaryTotal(summary, i + 1)

\* C1: every DetectionResponse detect returns has, when success is false,
\* no detections, no summary and an error, and when success is true no error.
C1_ResponseInvariant ==
    Returned =>
        /\ ~Response.success =>
              /\ Response.detections = <<>>
              /\ Response.summary = <<>>
              /\ Response.error # None
        /\ Response.success => Response.error = None

\* a parse failure came back as a failed response
C1_Witness ==
    /\ ReachedParse /\ Returned
    /\ ~Response.success
    /\ Response.error = Some("Failed to parse detection results")

\* C2: the count of every surviving item is the sum of its section integers
\* when that sum is positive, and otherwise, when the sections are absent or
\* sum to zero, the stated total floored at 1 (1 when no total is stated).
C2_ResolvedCount ==
    Answered =>
        /\ Len(Response.summary) = Len(Surviving)
        /\ \A i \in 1..Len(Surviving) :
             LET item == Surviving[i]
                 sec == Get(item.sections, SecObj(NoMap))
                 sum == IF Truthy(sec) THEN Val(SumInts(sec.m, 1)) ELSE 0
                 stated == IF item.total = Absent THEN 1
                           ELSE Max(1, Val(PyInt(item.total)))
                 count == Response.summary[i].count
             IN  /\ sum > 0 => count = sum
                 /\ (~Truthy(sec) \/ sum = 0) => count = stated

\* sections summing to 3 beside a stated total of 5 gave the count 3
C2_Witness ==
    /\ Answered
    /\ AnswerItems = <<ItemObj(JStr("cola"), JStr("high"), Grid(1, 2), JInt(5), Absent)>>
    /\ Response.summary[1].count = 3

\* C3: an item's level maps to 0.95, 0.75 or 0.4 (no level: 0.75); the result
\* holds exactly the items whose score is not below the threshold, in the
\* order of the answer.
C3_ConfidenceFilter ==
    Answered =>
        /\ Len(Response.detections) = Len(Surviving)
        /\ \A i \in 1..Len(Surviving) :
             /\ Response.detections[i].class_name =
                   PyStr(Get(Surviving[i].class_name, JStr("unknown")))
             /\ Response.detections[i].confidence = StatedScore(Surviving[i])

\* at threshold 0.8 the medium item went and the high items stayed, in order
C3_Witness ==
    /\ Answered
    /\ RequestedThreshold = 80
    /\ Len(AnswerItems) = 3
    /\ AnswerItems[1].confidence = JStr("high")
    /\ AnswerItems[2].confidence = JStr("medium")
    /\ AnswerItems[3].confidence = JStr("high")
    /\ AnswerItems[1].class_name # AnswerItems[3].class_name
    /\ Len(Response.detections) = 2
    /\ Response.detections[1].class_name = "cola"
    /\ Response.detections[2].class_name = "chips"

\* the last request was a POST /detect, and its response
Detecting == req # None /\ req[1].op = "detect" /\ resp # None
Status == resp[1].status

\* the detector get_detector handed to the last handler is loaded
Loaded(d) == d # None /\ d[1].ready

\* C4 as stated: a body shorter than 100 bytes is answered with 400 whatever
\* the state of the detector.
C4_Original ==
    Detecting /\ req[1].length < 100 => Status = 400

\* C4 as amended: a body shorter than 100 bytes is answered with 400 when the
\* detector is loaded, and with 503 when it is missing or not loaded.
C4_ShortBody ==
    Detecting /\ req[1].length < 100 =>
        Status = IF Loaded(det) THEN 400 ELSE 503

\* a 99-byte image/jpeg body met a loaded detector and got 400
C4_Witness ==
    /\ Detecting /\ req[1].length = 99
    /\ IsImageType(req[1].content_type)
    /\ Loaded(det)
    /\ Status = 400

\* the statuses of the failure conditions that hold of the last POST /detect
FailureStatuses ==
    (IF ~Loaded(det) THEN {503} ELSE {})
    \cup (IF ~IsImageType(req[1].content_type) THEN {400} ELSE {})
    \cup (IF req[1].length > max_upload_mb * 1024 * 1024 THEN {413} ELSE {})
    \cup (IF req[1].length < 100 THEN {400} ELSE {})
    \cup (IF Returned /\ ~Response.success THEN {422} ELSE {})

\* C5: when a failure condition holds the status is that of a condition that
\* holds (400 content type, 413 size, 400 short body, 422 failed result, 503
\* detector unavailable), and a 200 is returned only when none holds and it
\* carries success = true.
C5_StatusMapping ==
    Detecting =>
        /\ FailureStatuses # {} => Status \in FailureStatuses
        /\ Returned /\ ~Response.success => Status = 422
        /\ ~Loaded(det) => Status = 503
        /\ Status = 200 =>
              /\ FailureStatuses = {}
              /\ resp[1].body # None /\ resp[1].body[1].success

\* a failed detection on a well-formed upload got 422
C5_Witness ==
    /\ Detecting /\ Status = 422
    /\ Returned /\ ~Response.success
    /\ IsImageType(req[1].content_type) /\ req[1].length = 100

\* the answers the claim lists: text json.loads refuses, JSON that is no
\* object, an entry of "items" that is no object
Malformed(text) ==
    LET lines == StripFence(text)
    IN  \/ Raised(JsonLoads(lines))
        \/ lines[1].t # "obj"
        \/ \E i \in 1..Len(lines[1].items.l) : lines[1].items.l[i].t # "obj"

\* C6 as stated: whatever text the remote model returns, no exception leaves
\* detect; a malformed answer gives success = false with an error, and POST
\* /detect answers 422.
C6_NoEscape ==
    Detecting /\ call # None /\ ReachedParse =>
        /\ ~Raised(ret[1])
        /\ Malformed(call[1].text) =>
              /\ ~Response.success /\ Response.error # None
              /\ Status = 422

\* C7: total_objects of a successful response is the sum of the counts of its
\* summary entries; the answer {"items": []} gives success with no
\* detections, no summary and total_objects 0.
C7_TotalObjects ==
    /\ Returned /\ Response.success =>
          Response.total_objects = SummaryTotal(Response.summary, 1)
    /\ ReachedParse /\ ret # None /\ call[1].text = EmptyAnswer =>
          /\ Returned /\ Response.success
          /\ Response.summary = <<>> /\ Response.detections = <<>>
          /\ Response.total_objects = 0

\* two entries with counts 1 and 3 gave total_objects 4
C7_Witness ==
    /\ Returned /\ Response.success
    /\ Len(Response.summary) = 2
    /\ Response.summary[1].count = 1 /\ Response.summary[2].count = 3
    /\ Response.total_objects = 4

\* C8: the summary has at most one entry per class_name, holding that
\* class's count and the mean confidence of its detections, and its entries
\* are in descending order of count. Violated: detect appends one entry per
\* parsed item (lines 250-268) and neither groups nor sorts, so two items of
\* one class_name give two entries, in the order of the answer.
C8_GroupedSummary ==
    Returned /\ Response.success =>
        LET summary == Response.summary
            dets == Response.detections
        IN  /\ \A i, j \in 1..Len(summary) :
                  i < j => /\ summary[i].class_name # summary[j].class_name
                           /\ summary[i].count >= summary[j].count
            /\ \A i \in 1..Len(summary) :
                  LET group == {k \in 1..Len(dets) :
                                  dets[k].class_name = summary[i].class_name}
                      RECURSIVE Total(_)
                      Total(K) == IF K = {} THEN 0
                                  ELSE LET k == CHOOSE x \in K : TRUE
                                       IN  dets[k].confidence + Total(K \ {k})
                  IN  summary[i].avg_confidence * Cardinality(group) = Total(group)

\* startup_event met a failure: no model file, a missing dependency, a
\* detector that cannot be constructed, no API key, no client
StartupFailed ==
    /\ started # None
    /\ ~(/\ started[1].downloaded /\ started[1].deps_ok
         /\ started[1].env.constructs /\ started[1].env.api_key
         /\ started[1].env.client_ok)

\* C9: a failing startup does not end the process; the service is up and not
\* ready, /health reports model_loaded = false and POST /detect answers 503
\* for as long as the model is not reloaded. Violated with the Settings of
\* config.py: startup_event reads settings.model_path, the AttributeError
\* leaves the handler and the process ends (pc = "crashed").
C9_StartupDegrades ==
    /\ pc # "crashed"
    /\ StartupFailed /\ reloads = 0 =>
          /\ pc = "serving"
          /\ ~Loaded(detector)
          /\ req # None /\ req[1].op = "health" =>
                /\ resp[1].body # None
                /\ ~resp[1].body[1].model_loaded
          /\ Detecting => Status = 503

\* C10: without a /reload-model, get_detector constructs at most once: a
\* constructed detector is the instance every later call returns, and after
\* a failed construction detector_error stays set and every call returns
\* None.
C10_SingleConstruction ==
    reloads = 0 =>
        /\ attempts <= 1
        /\ detector # None =>
              /\ detector[1].id = 1
              /\ det = detector
        /\ attempts = 1 /\ detector = None =>
              /\ detector_error # None
              /\ det = None

\* a POST /detect after startup was served by the instance startup built
C10_Witness ==
    /\ reloads = 0 /\ attempts = 1 /\ pc = "serving"
    /\ Detecting /\ Status = 200
    /\ det = detector /\ detector # None /\ detector[1].id = 1

\* detect opened the image of its call, a valid image, and returned
Prepared == call # None /\ Returned /\ call[1].ready /\ call[1].image.ok

\* new is old scaled by limit / longest, within one pixel
WithinOnePixel(new, old, longest, limit) ==
    /\ new * longest - old * limit < longest
    /\ old * limit - new * longest < longest

\* C11: an image no larger than max_image_size is encoded at its own size;
\* a larger one is encoded with its longer side equal to max_image_size and
\* its other side scaled with it, within one pixel; either way the response
\* reports the original width and height. Violated: int() truncates the
\* float product, which for some sizes lies just below max_image_size, and a
\* side that scales to 0 makes the resize raise.
C11_PrepareImage ==
    Prepared =>
        LET image   == call[1].image
            longest == Max(image.w, image.h)
        IN  /\ Response.error # Some("Invalid image")
            /\ Response.success =>
                  LET sent == Response.image_preview[1]
                  IN  /\ Response.image_width = image.w
                      /\ Response.image_height = image.h
                      /\ longest <= max_image_size =>
                            sent.w = image.w /\ sent.h = image.h
                      /\ longest > max_image_size =>
                            /\ Max(sent.w, sent.h) = max_image_size
                            /\ image.w < longest =>
                                  WithinOnePixel(sent.w, image.w, longest,
                                                 max_image_size)
                            /\ image.h < longest =>
                                  WithinOnePixel(sent.h, image.h, longest,
                                                 max_image_size)

\* C12: every summary entry of a successful response has a count of at
\* least 1, whatever the answer states (a total of 0, negative section
\* values, neither sections nor total), so total_objects is at least the
\* number of summary entries.
C12_CountAtLeastOne ==
    Returned /\ Response.success =>
        /\ \A i \in 1..Len(Response.summary) : Response.summary[i].count >= 1
        /\ Response.total_objects >= Len(Response.summary)

\* an answer whose one item states no positive count (total 0 or below, or
\* none, and no sections or sections summing below 1) gave an entry of count 1
C12_Witness ==
    /\ Answered
    /\ Len(AnswerItems) = 1 /\ AnswerItems[1].t = "obj"
    /\ AnswerItems[1].total \in {Absent, JInt(0), JInt(-2)}
    /\ AnswerItems[1].sections \in {SecAbsent, Grid(0, 0), Grid(-2, 1)}
    /\ Len(Response.summary) = 1
    /\ Response.summary[1].count = 1
    /\ Response.total_objects = 1
====
